---- MODULE Spec2Model ----
(***************************************************************************)
(* SyncStream (sukumarluckyy/syncsong): a host tab drives a YouTube player *)
(* and writes the room's RoomState to localStorage; listener tabs receive  *)
(* `storage` events and reconcile their own players once per second.       *)
(*                                                                         *)
(* The repository holds two builds of the Room page and of the useYouTube  *)
(* hook.  `variant` selects the build a behaviour runs:                    *)
(*   variant 1 = Room of part_002 lines 1-265 with the hook of part_000,   *)
(*   variant 2 = Room of part_002 lines 267-576 with hooks/useYouTube.tsx. *)
(*                                                                         *)
(* Units.  Wall-clock time (Date.now()) and player positions are integers  *)
(* in milliseconds.  The code keeps positions as floating-point seconds    *)
(* and computes (Date.now() - lastUpdated) / 1000; in milliseconds that    *)
(* division is the identity, MAX_DRIFT 0.5 s is 500 and 0.8 s is 800.      *)
(* Floating-point rounding is not modelled.                                *)
(*                                                                         *)
(* One session = one browser tab: its own sessionStorage, its own React    *)
(* tree, its own player, its own queue of pending `storage` events.        *)
(* localStorage (store) is shared by all tabs.                             *)
(***************************************************************************)
EXTENDS Integers, Sequences, FiniteSets, TLC

VARIABLES
    variant,    \* 1 or 2: which build of Room/useYouTube runs
    now,        \* Date.now(), ms
    store,      \* localStorage: room id -> RoomState, NoState when absent
    sess,       \* sessionStorage of each tab: role bindings and userId
    ui,         \* React state, subscription and timers of each tab
    pl,         \* the YouTube side of each tab: the IFrame API script and the player instance
    inbox,      \* `storage` events queued for each tab, oldest first
    ops,        \* number of user / environment operations taken so far
    budget,     \* the open tabs and the bounds of this behaviour (operations, clock quanta)
    lastTick,   \* history: what the step just taken did, if it was checkSync
    lastWrite,  \* history: the updateRoomState call of the step just taken
    lastEvent,  \* history: the onStateChange event of the step just taken
    hist        \* history per tab: reference instants for the timing claims

vars == <<variant, now, store, sess, ui, pl, inbox, ops, budget, lastTick, lastWrite, lastEvent, hist>>

----------------------------------------------------------------------------
(* Bounds of the model *)

NumSessions == 2
NumIds == 2
NumUserIds == 1
NumVideos == 1
MaxQuanta == 4
MaxOps == 4
SoloQuanta == 5
SoloOps == 5
NumSoloVideos == 2
TickQuanta == 2
StoreQuanta == 3
NumStoreIds == 1
HomeOps == 4
PairOps == 3
PairQuanta == 4
PauseOps == 2
PauseQuanta == 7
LoadOps == 3
LoadQuanta == 4
RoamOps == 4
RoamQuanta == 2
MaxInbox == 1

(* Program constants, in ms *)

PROGRESS_MS == 500
SYNC_MS == 1000
HEARTBEAT_MS == 2000
MAX_DRIFT_V1 == 500
MAX_DRIFT_V2 == 800

Sessions == 1..NumSessions
Ids == 1..NumIds
UserIds == 1..NumUserIds
Videos == 1..NumVideos
SoloVideos == 1..NumSoloVideos
Off == 0 - 1

\* YT.PlayerState values the code distinguishes
UNSTARTED == -1
\* what getPlayerState() yields through `playerRef.current?.` when there is no player
Undefined == 0 - 2
PLAYING == 1
PAUSED == 2
BUFFERING == 3

----------------------------------------------------------------------------
(* RoomState and the store (roomService) *)

\* `null`: what getRoomState returns for an absent key
NoState ==
    [roomId |-> 0, hostId |-> 0, videoId |-> 0,
     isPlaying |-> FALSE, timestamp |-> 0, lastUpdated |-> 0]

IsState(x) == x.roomId # 0

getRoomState(st, r) == IF r \in DOMAIN st THEN st[r] ELSE NoState

\* Partial<RoomState> as the callers build it: only isPlaying / timestamp occur
UpdPlayTime(p, t) == [hasPlaying |-> TRUE, isPlaying |-> p, hasTimestamp |-> TRUE, timestamp |-> t]
\* a checkpoint update that also names isPlaying
UpdTime_Pausing(t) == [hasPlaying |-> TRUE, isPlaying |-> FALSE, hasTimestamp |-> TRUE, timestamp |-> t]
UpdTime(t) == [hasPlaying |-> FALSE, isPlaying |-> FALSE, hasTimestamp |-> TRUE, timestamp |-> t]

\* a merge that also clears the stored videoId
MergeState_DropsVideo(cur, upd, t) ==
    [cur EXCEPT !.isPlaying = IF upd.hasPlaying THEN upd.isPlaying ELSE @,
                !.timestamp = IF upd.hasTimestamp THEN upd.timestamp ELSE @,
                !.videoId = 0,
                !.lastUpdated = t]

\* a merge that keeps the old lastUpdated
MergeState_StaleClock(cur, upd, t) ==
    [cur EXCEPT !.isPlaying = IF upd.hasPlaying THEN upd.isPlaying ELSE @,
                !.timestamp = IF upd.hasTimestamp THEN upd.timestamp ELSE @]

\* a merge that adds the update's timestamp to the stored one
MergeState_Additive(cur, upd, t) ==
    [cur EXCEPT !.isPlaying = IF upd.hasPlaying THEN upd.isPlaying ELSE @,
                !.timestamp = IF upd.hasTimestamp THEN @ + upd.timestamp ELSE @,
                !.lastUpdated = t]

\* a merge that replaces the record: a field the update does not name is reset
MergeState_Replace(cur, upd, t) ==
    [cur EXCEPT !.isPlaying = IF upd.hasPlaying THEN upd.isPlaying ELSE FALSE,
                !.timestamp = IF upd.hasTimestamp THEN upd.timestamp ELSE 0,
                !.lastUpdated = t]

\* { ...current, ...updates, lastUpdated: Date.now() }
MergeState(cur, upd, t) ==
    [cur EXCEPT !.isPlaying = IF upd.hasPlaying THEN upd.isPlaying ELSE @,
                !.timestamp = IF upd.hasTimestamp THEN upd.timestamp ELSE @,
                !.lastUpdated = t]

\* a merge that is applied to every stored room
updateRoomState_EveryRoom(st, r, upd, t) ==
    IF ~IsState(getRoomState(st, r)) THEN st
    ELSE [q \in DOMAIN st |->
            IF IsState(st[q]) THEN MergeState(st[q], upd, t) ELSE st[q]]

\* the store after updateRoomState(r, upd) at time t
updateRoomState(st, r, upd, t) ==
    IF ~IsState(getRoomState(st, r)) THEN st
    ELSE [st EXCEPT ![r] = MergeState(st[r], upd, t)]

\* what updateRoomState(r, upd) hands back to its caller: the early `return` for an
\* absent room and the end of the function both yield undefined, neither path throws
updateRoomStateReturn(st, r) ==
    IF ~IsState(getRoomState(st, r))
    THEN [threw |-> FALSE, value |-> Undefined]
    ELSE [threw |-> FALSE, value |-> Undefined]

\* createRoom's initialState
InitialState(r, h, vid, t) ==
    [roomId |-> r, hostId |-> h, videoId |-> vid,
     isPlaying |-> FALSE, timestamp |-> 0, lastUpdated |-> t]

\* the open tabs that have a `storage` listener registered (subscribeToRoom)
Listening == {x \in budget.tabs : ui[x].sub # 0}

\* localStorage.setItem raises a `storage` event in every OTHER tab, and only
\* when the stored value changed
Broadcast(ib, tabs, writer, r, old, new) ==
    IF old = new THEN ib
    ELSE [x \in Sessions |->
            IF x = writer \/ x \notin tabs THEN ib[x]
            ELSE Append(ib[x], [key |-> r, newValue |-> new])]

\* at most MaxInbox undelivered events per tab
InboxRoom(writer) == \A x \in Listening \ {writer} : Len(inbox[x]) < MaxInbox

NoWrite == [by |-> 0, room |-> 0, kind |-> "none", applied |-> FALSE]
NoTick ==
    [by |-> 0, threw |-> FALSE, rs |-> NoState, at |-> 0, pos |-> 0,
     st |-> UNSTARTED, want |-> "none", seeks |-> <<>>, plays |-> 0, pauses |-> 0]
NoEvent == [by |-> 0, data |-> 0]
NoSeek == [at |-> Off, to |-> 0]
NoHist == [tickRef |-> Off, playRef |-> Off, seek |-> NoSeek]

----------------------------------------------------------------------------
(* sessionStorage and joinRoom *)

InitSess == [roles |-> {}, userId |-> 0]

\* joinRoom(roomId); uid is the id generateId() would draw if none is stored
joinRoom(st, ss, r, uid) ==
    LET state == getRoomState(st, r) IN
    IF ~IsState(state)
    THEN [success |-> FALSE, state |-> NoState, isHost |-> FALSE, sess |-> ss]
    ELSE [success |-> TRUE, state |-> state, isHost |-> (r \in ss.roles),
          sess |-> IF ss.userId = 0 THEN [ss EXCEPT !.userId = uid] ELSE ss]

----------------------------------------------------------------------------
(* The player adapter (useYouTube) *)

\* api: window.YT is present; pending: the initPlayer closures that
\* window.onYouTubeIframeAPIReady will run once the script has loaded
NoPlayer ==
    [inst |-> FALSE, ready |-> FALSE, vid |-> 0, st |-> UNSTARTED, pos |-> 0,
     want |-> "none", cbHost |-> FALSE, cbRid |-> 0, cbHas |-> FALSE,
     api |-> TRUE, pending |-> <<>>]

\* new window.YT.Player(...): the instance keeps the onStateChange closure of the
\* render whose effect built it (isHost, roomId, roomState of that render)
NewPlayer(vid, u) ==
    [inst |-> TRUE, ready |-> FALSE, vid |-> vid, st |-> UNSTARTED, pos |-> 0,
     want |-> "none", cbHost |-> u.isHost, cbRid |-> u.rid, cbHas |-> IsState(u.roomState),
     api |-> TRUE, pending |-> <<>>]

\* A YT.Player object has no API methods before its onReady: a call through
\* playerRef.current?.method() then raises a TypeError
Throws(p) == p.inst /\ ~p.ready
Callable(p) == p.inst /\ p.ready

\* playerRef.current?.getCurrentTime() || 0
getCurrentTime(p) == IF p.inst THEN p.pos ELSE 0
\* playerRef.current?.getPlayerState()
getPlayerState(p) == IF p.inst THEN p.st ELSE Undefined

\* controls.play / pause / seekTo against the instance
playVideo(p) == IF Callable(p) THEN [p EXCEPT !.want = "play"] ELSE p
pauseVideo(p) == IF Callable(p) THEN [p EXCEPT !.want = "pause"] ELSE p
seekTo(p, t) == IF Callable(p) THEN [p EXCEPT !.pos = t] ELSE p

\* the useYouTube effect, deps [videoId, containerId], on a render whose videoId
\* is that of u.roomState ('' = 0 when there is none); prevVid is the videoId of
\* the previous run (Off when there was none)
HookEffect(v, prevVid, u, p) ==
    LET vid == u.roomState.videoId IN
    IF vid = prevVid THEN [ui |-> u, pl |-> p]
    ELSE IF ~p.api
         THEN \* the script is still loading, no player exists yet: initPlayer is left
              \* for window.onYouTubeIframeAPIReady
              IF v = 1
              THEN \* part_000: window.onYouTubeIframeAPIReady = initPlayer
                   [ui |-> u, pl |-> [p EXCEPT !.pending = <<NewPlayer(vid, u)>>]]
              ELSE \* hooks/useYouTube.tsx: the callback already set is kept and called first
                   [ui |-> [u EXCEPT !.isReady = FALSE],
                    pl |-> IF vid = 0 THEN p
                           ELSE [p EXCEPT !.pending = Append(@, NewPlayer(vid, u))]]
    ELSE IF v = 1
         THEN \* part_000: destroy, rebuild; isReady is never reset, '' is not guarded
              [ui |-> u, pl |-> NewPlayer(vid, u)]
         ELSE \* hooks/useYouTube.tsx: destroy, ref = null, setIsReady(false); no init for ''
              [ui |-> [u EXCEPT !.isReady = FALSE],
               pl |-> IF vid = 0 THEN NoPlayer ELSE NewPlayer(vid, u)]

----------------------------------------------------------------------------
(* The Room component *)

InitUi ==
    [page |-> "home", rid |-> 0, roomState |-> NoState, isHost |-> FALSE,
     userInteracted |-> FALSE, error |-> FALSE, isReady |-> FALSE, sub |-> 0,
     syncDue |-> Off, beatDue |-> Off, localCurrentTime |-> 0]

\* Tracking without the interaction gesture
Tracking_NoGesture(u) ==
    ~u.isHost /\ IsState(u.roomState) /\ u.isReady

\* the guard of the listener sync effect: the listener is Tracking
Tracking(u) ==
    ~u.isHost /\ IsState(u.roomState) /\ u.isReady /\ u.userInteracted

\* the guard of the host heartbeat effect (variant 1) / of the progress effect (variant 2)
BeatOn(v, u) ==
    IF v = 1 THEN u.isHost /\ u.rid # 0 /\ u.isReady ELSE u.isReady

BeatPeriod(v) == IF v = 1 THEN HEARTBEAT_MS ELSE PROGRESS_MS

\* Every render builds a new `controls` object, which is a dependency of the
\* timer effects: each render clears and restarts their intervals
ArmTimers(v, t, u) ==
    [u EXCEPT !.syncDue = IF Tracking(u) THEN t + SYNC_MS ELSE Off,
              !.beatDue = IF BeatOn(v, u) THEN t + BeatPeriod(v) ELSE Off]

\* a render and its effects: u holds the new state, prevVid the previous videoId
Commit(v, t, prevVid, u, p) ==
    LET h == HookEffect(v, prevVid, u, p) IN
    [ui |-> ArmTimers(v, t, h.ui), pl |-> h.pl]

\* the init effect, deps [roomId], for roomId r with jr = joinRoom(r)
RoomInitEffect(v, u, r, jr) ==
    IF ~jr.success
    THEN [u EXCEPT !.rid = r, !.error = TRUE, !.sub = 0]
    ELSE [u EXCEPT !.rid = r, !.roomState = jr.state, !.isHost = jr.isHost,
                   !.userInteracted = IF v = 2 /\ jr.isHost THEN TRUE ELSE @,
                   !.sub = r]

\* the Room page mounting on /room/r: first render with empty state, its effects,
\* then the render the init effect's setState calls cause
MountRoomWith(v, t, r, jr, p) ==
    LET u0 == [InitUi EXCEPT !.page = "room", !.rid = r]
        h0 == HookEffect(v, Off, u0, p)
        u1 == RoomInitEffect(v, h0.ui, r, jr)
    IN  Commit(v, t, u0.roomState.videoId, u1, h0.pl)

\* the same in a tab whose API script has loaded
MountRoom(v, t, r, jr) == MountRoomWith(v, t, r, jr, NoPlayer)

\* the main view (overlay, player, controls) is rendered only without error and with a state
MainView(u) == u.page = "room" /\ ~u.error /\ IsState(u.roomState)

----------------------------------------------------------------------------
(* checkSync: one listener reconciliation tick *)

MAX_DRIFT(v) == IF v = 1 THEN MAX_DRIFT_V1 ELSE MAX_DRIFT_V2

Abs(x) == IF x < 0 THEN 0 - x ELSE x

\* targetTime without the extrapolation from lastUpdated
TargetTime_Checkpoint(rs, t) == rs.timestamp

\* targetTime counting the elapsed time down
TargetTime_Countdown(rs, t) ==
    IF rs.isPlaying THEN rs.timestamp - (t - rs.lastUpdated) ELSE rs.timestamp

\* targetTime: timestamp, plus (Date.now() - lastUpdated) / 1000 when playing
TargetTime(rs, t) ==
    IF rs.isPlaying THEN rs.timestamp + (t - rs.lastUpdated) ELSE rs.timestamp

\* checkSync seeking already at drift = MAX_DRIFT
checkSync_SeekAtBoundary(v, rs, t, p) ==
    LET playerState == getPlayerState(p)
        drift == Abs(getCurrentTime(p) - TargetTime(rs, t))
    IN  [seeks |-> IF drift >= MAX_DRIFT(v) THEN <<TargetTime(rs, t)>> ELSE <<>>,
         plays |-> IF rs.isPlaying /\ playerState # PLAYING /\ playerState # BUFFERING
                   THEN 1 ELSE 0,
         pauses |-> IF ~rs.isPlaying /\ playerState = PLAYING THEN 1 ELSE 0]

\* checkSync fighting a buffering player
checkSync_PlayWhileBuffering(v, rs, t, p) ==
    LET playerState == getPlayerState(p)
        drift == Abs(getCurrentTime(p) - TargetTime(rs, t))
    IN  [seeks |-> IF drift > MAX_DRIFT(v) THEN <<TargetTime(rs, t)>> ELSE <<>>,
         plays |-> IF rs.isPlaying /\ playerState # PLAYING THEN 1 ELSE 0,
         pauses |-> IF ~rs.isPlaying /\ playerState = PLAYING THEN 1 ELSE 0]

\* checkSync reconciling play / pause only in a tick that did not seek
checkSync_PauseUnlessSeek(v, rs, t, p) ==
    LET playerState == getPlayerState(p)
        drift == Abs(getCurrentTime(p) - TargetTime(rs, t))
    IN  [seeks |-> IF drift > MAX_DRIFT(v) THEN <<TargetTime(rs, t)>> ELSE <<>>,
         plays |-> IF drift <= MAX_DRIFT(v) /\ rs.isPlaying
                      /\ playerState # PLAYING /\ playerState # BUFFERING
                   THEN 1 ELSE 0,
         pauses |-> IF drift <= MAX_DRIFT(v) /\ ~rs.isPlaying /\ playerState = PLAYING
                    THEN 1 ELSE 0]

\* checkSync seeking one tick period ahead of targetTime
checkSync_SeekAhead(v, rs, t, p) ==
    LET playerState == getPlayerState(p)
        drift == Abs(getCurrentTime(p) - TargetTime(rs, t))
    IN  [seeks |-> IF drift > MAX_DRIFT(v) THEN <<TargetTime(rs, t) + SYNC_MS>> ELSE <<>>,
         plays |-> IF rs.isPlaying /\ playerState # PLAYING /\ playerState # BUFFERING
                   THEN 1 ELSE 0,
         pauses |-> IF ~rs.isPlaying /\ playerState = PLAYING THEN 1 ELSE 0]

\* checkSync playing only a player it has not yet told to play
checkSync_OncePerCommand(v, rs, t, p) ==
    LET playerState == getPlayerState(p)
        drift == Abs(getCurrentTime(p) - TargetTime(rs, t))
    IN  [seeks |-> IF drift > MAX_DRIFT(v) THEN <<TargetTime(rs, t)>> ELSE <<>>,
         plays |-> IF rs.isPlaying /\ playerState # PLAYING /\ playerState # BUFFERING
                      /\ p.want # "play"
                   THEN 1 ELSE 0,
         pauses |-> IF ~rs.isPlaying /\ playerState = PLAYING THEN 1 ELSE 0]

\* the commands checkSync issues for cached state rs at time t, reading player p
checkSync(v, rs, t, p) ==
    LET playerState == getPlayerState(p)
        currentTime == getCurrentTime(p)
        targetTime == TargetTime(rs, t)
        drift == Abs(currentTime - targetTime)
    IN  [seeks |-> IF drift > MAX_DRIFT(v) THEN <<targetTime>> ELSE <<>>,
         plays |-> IF rs.isPlaying /\ playerState # PLAYING /\ playerState # BUFFERING
                   THEN 1 ELSE 0,
         pauses |-> IF ~(rs.isPlaying /\ playerState # PLAYING /\ playerState # BUFFERING)
                       /\ ~rs.isPlaying /\ playerState = PLAYING
                    THEN 1 ELSE 0]

\* the player after the commands of one tick
ApplyCmds(p, c) ==
    LET p1 == IF c.seeks # <<>> THEN seekTo(p, c.seeks[1]) ELSE p
        p2 == IF c.plays > 0 THEN playVideo(p1) ELSE p1
    IN  IF c.pauses > 0 THEN pauseVideo(p2) ELSE p2


----------------------------------------------------------------------------
(* History *)

\* tab s is in its room as the host its sessionStorage says it is, with its player playing
HostPlayingIn(u, p, ss, st) ==
    /\ u.page = "room" /\ u.isHost /\ u.rid \in ss.roles
    /\ IsState(getRoomState(st, u.rid))
    /\ Callable(p) /\ p.st = PLAYING

\* tickRef: the instant from which a Tracking listener is owed a tick (entry to
\* Tracking, or its last tick); playRef: the instant since which a host has been
\* playing in its room without interruption.  ticker is the tab whose checkSync
\* ran in this step (0 when none did).  seek: the instant and the target of the
\* last seek a tick of the listener issued under the RoomState it still caches.
HistStep(ticker) ==
    hist' = [s \in Sessions |->
        [tickRef |-> IF Tracking(ui'[s])
                     THEN IF Tracking(ui[s]) /\ s # ticker THEN hist[s].tickRef ELSE now'
                     ELSE Off,
         playRef |-> IF HostPlayingIn(ui'[s], pl'[s], sess'[s], store')
                     THEN IF HostPlayingIn(ui[s], pl[s], sess[s], store)
                             /\ ui'[s].rid = ui[s].rid
                          THEN hist[s].playRef ELSE now'
                     ELSE Off,
         seek |-> IF s = ticker /\ lastTick'.seeks # <<>>
                  THEN [at |-> now, to |-> lastTick'.seeks[1]]
                  ELSE IF Tracking(ui'[s]) /\ ui'[s].roomState = ui[s].roomState
                       THEN hist[s].seek ELSE NoSeek]]

\* the step calls updateRoomState(r, upd) in tab s
WriteBy(s, r, upd, kind) ==
    /\ store' = updateRoomState(store, r, upd, now)
    /\ inbox' = Broadcast(inbox, Listening, s, r, getRoomState(store, r), getRoomState(store', r))
    /\ lastWrite' = [by |-> s, room |-> r, kind |-> kind,
                     applied |-> IsState(getRoomState(store, r))]

\* the step calls no updateRoomState
WritesNothing ==
    /\ UNCHANGED <<store, inbox>>
    /\ lastWrite' = NoWrite

----------------------------------------------------------------------------
(* Initial state: every tab on the Home page, no room stored *)

Init ==
    /\ variant \in {1, 2}
    /\ now = 0
    /\ store = [r \in Ids |-> NoState]
    /\ sess = [s \in Sessions |-> InitSess]
    /\ ui = [s \in Sessions |-> InitUi]
    /\ pl = [s \in Sessions |-> NoPlayer]
    /\ inbox = [s \in Sessions |-> <<>>]
    /\ ops = 0
    /\ budget = [tabs |-> Sessions, ops |-> MaxOps, quanta |-> MaxQuanta]
    /\ lastTick = NoTick
    /\ lastWrite = NoWrite
    /\ lastEvent = NoEvent
    /\ hist = [s \in Sessions |-> NoHist]

----------------------------------------------------------------------------
(* Home page *)

\* handleCreate's timeout callback: createRoom(id), then navigate to /room/<roomId>.
\* r and h are the ids generateId() draws for roomId and hostId.
CreateRoom(s, vid, r, h) ==
    /\ ui[s].page = "home"
    /\ ops < budget.ops
    /\ InboxRoom(s)
    /\ LET new == InitialState(r, h, vid, now)
           st1 == [store EXCEPT ![r] = new]
           ss1 == [sess[s] EXCEPT !.roles = @ \cup {r}, !.userId = h]
           jr == joinRoom(st1, ss1, r, h)
           m == MountRoom(variant, now, r, jr)
       IN  /\ store' = st1
           /\ inbox' = Broadcast(inbox, Listening, s, r, store[r], new)
           /\ sess' = [sess EXCEPT ![s] = jr.sess]
           /\ ui' = [ui EXCEPT ![s] = m.ui]
           /\ pl' = [pl EXCEPT ![s] = m.pl]
           /\ lastWrite' = [by |-> s, room |-> r, kind |-> "create", applied |-> TRUE]
    /\ ops' = ops + 1
    /\ lastTick' = NoTick
    /\ lastEvent' = NoEvent
    /\ UNCHANGED <<variant, budget, now>>
    /\ HistStep(0)

\* handleJoin: navigate to /room/<joinId>; the Room page mounts
JoinFromHome(s, r, uid) ==
    /\ ui[s].page = "home"
    /\ ops < budget.ops
    /\ LET jr == joinRoom(store, sess[s], r, uid)
           m == MountRoom(variant, now, r, jr)
       IN  /\ sess' = [sess EXCEPT ![s] = jr.sess]
           /\ ui' = [ui EXCEPT ![s] = m.ui]
           /\ pl' = [pl EXCEPT ![s] = m.pl]
    /\ ops' = ops + 1
    /\ WritesNothing
    /\ lastTick' = NoTick
    /\ lastEvent' = NoEvent
    /\ UNCHANGED <<variant, budget, now>>
    /\ HistStep(0)

----------------------------------------------------------------------------
(* Room page: navigation *)

\* navigate('/'): the Room page unmounts; every effect's cleanup runs.  Leaving
\* while the API script is still loading is outside the model.
GoHome(s) ==
    /\ ui[s].page = "room"
    /\ pl[s].api
    /\ ops < budget.ops
    /\ ui' = [ui EXCEPT ![s] = InitUi]
    /\ pl' = [pl EXCEPT ![s] = NoPlayer]
    /\ ops' = ops + 1
    /\ WritesNothing
    /\ lastTick' = NoTick
    /\ lastEvent' = NoEvent
    /\ UNCHANGED <<variant, budget, now, sess>>
    /\ HistStep(0)

\* the :roomId route parameter changes while the Room page stays mounted: component
\* state is kept, the init effect (deps [roomId]) cleans up and runs for r
ChangeRoom(s, r, uid) ==
    /\ ui[s].page = "room"
    /\ r # ui[s].rid
    /\ ops < budget.ops
    /\ LET jr == joinRoom(store, sess[s], r, uid)
           u1 == RoomInitEffect(variant, ui[s], r, jr)
           c == Commit(variant, now, ui[s].roomState.videoId, u1, pl[s])
       IN  /\ sess' = [sess EXCEPT ![s] = jr.sess]
           /\ ui' = [ui EXCEPT ![s] = c.ui]
           /\ pl' = [pl EXCEPT ![s] = c.pl]
    /\ ops' = ops + 1
    /\ WritesNothing
    /\ lastTick' = NoTick
    /\ lastEvent' = NoEvent
    /\ UNCHANGED <<variant, budget, now>>
    /\ HistStep(0)

\* the listener overlay's button: setUserInteracted(true)
Gesture(s) ==
    /\ MainView(ui[s])
    /\ ~ui[s].isHost /\ ~ui[s].userInteracted
    /\ ops < budget.ops
    /\ LET c == Commit(variant, now, ui[s].roomState.videoId,
                       [ui[s] EXCEPT !.userInteracted = TRUE], pl[s])
       IN  /\ ui' = [ui EXCEPT ![s] = c.ui]
           /\ pl' = [pl EXCEPT ![s] = c.pl]
    /\ ops' = ops + 1
    /\ WritesNothing
    /\ lastTick' = NoTick
    /\ lastEvent' = NoEvent
    /\ UNCHANGED <<variant, budget, now, sess>>
    /\ HistStep(0)

----------------------------------------------------------------------------
(* Broadcast: a queued `storage` event is dispatched in tab s *)

\* subscribeToRoom's handler: e.key is the subscribed room and e.newValue is set
Deliver(s) ==
    /\ inbox[s] # <<>>
    /\ LET ev == Head(inbox[s])
           c == Commit(variant, now, ui[s].roomState.videoId,
                       [ui[s] EXCEPT !.roomState = ev.newValue], pl[s])
       IN  IF ui[s].sub # 0 /\ ui[s].sub = ev.key /\ IsState(ev.newValue)
           THEN /\ ui' = [ui EXCEPT ![s] = c.ui]
                /\ pl' = [pl EXCEPT ![s] = c.pl]
           ELSE UNCHANGED <<ui, pl>>
    /\ inbox' = [inbox EXCEPT ![s] = Tail(@)]
    /\ lastWrite' = NoWrite
    /\ lastTick' = NoTick
    /\ lastEvent' = NoEvent
    /\ UNCHANGED <<variant, budget, now, store, sess, ops>>
    /\ HistStep(0)


----------------------------------------------------------------------------
(* Player events *)

\* the IFrame API script finishes loading and calls window.onYouTubeIframeAPIReady.
\* part_000 holds the initPlayer of the last effect run there; hooks/useYouTube.tsx
\* holds the chain of all runs, oldest first, and every initPlayer after the first
\* returns at `if (playerRef.current) return`
ApiLoaded(s) ==
    /\ ~pl[s].api
    /\ pl' = [pl EXCEPT ![s] = IF @.pending = <<>> THEN [@ EXCEPT !.api = TRUE]
                               ELSE Head(@.pending)]
    /\ WritesNothing
    /\ lastTick' = NoTick
    /\ lastEvent' = NoEvent
    /\ UNCHANGED <<variant, budget, now, sess, ui, ops>>
    /\ HistStep(0)

\* onReady of the current instance: setIsReady(true); a changed state re-renders
PlayerReady(s) ==
    /\ Throws(pl[s])
    /\ pl' = [pl EXCEPT ![s].ready = TRUE]
    /\ ui' = [ui EXCEPT ![s] =
                IF @.isReady THEN @
                ELSE ArmTimers(variant, now, [@ EXCEPT !.isReady = TRUE])]
    /\ WritesNothing
    /\ lastTick' = NoTick
    /\ lastEvent' = NoEvent
    /\ UNCHANGED <<variant, budget, now, sess, ops>>
    /\ HistStep(0)

\* the transitions the player makes: towards the last command, or a buffering stall
CanChange(p, ns) ==
    /\ Callable(p)
    /\ ns # p.st
    /\ \/ ns = PLAYING /\ p.want = "play"
       \/ ns = BUFFERING /\ p.want = "play"
       \/ ns = PAUSED /\ p.want = "pause" /\ p.st \in {PLAYING, BUFFERING}

\* a stall of a playing player is an event of the environment
IsStall(p, ns) == p.st = PLAYING /\ ns = BUFFERING

\* Room's onStateChange as the instance holds it: host broadcasts playing / paused
OnStateChangeWrites(p, ns) ==
    p.cbHost /\ p.cbRid # 0 /\ p.cbHas /\ ns \in {PLAYING, PAUSED}

\* the player of tab s enters state ns and fires onStateChange(ns)
PlayerChange(s, ns) ==
    /\ CanChange(pl[s], ns)
    /\ IsStall(pl[s], ns) => ops < budget.ops
    /\ pl' = [pl EXCEPT ![s].st = ns]
    /\ IF OnStateChangeWrites(pl[s], ns)
       THEN /\ InboxRoom(s)
            /\ WriteBy(s, pl[s].cbRid,
                       UpdPlayTime(ns = PLAYING, getCurrentTime(pl[s])), "event")
       ELSE WritesNothing
    /\ ops' = IF IsStall(pl[s], ns) THEN ops + 1 ELSE ops
    /\ lastTick' = NoTick
    /\ lastEvent' = [by |-> s, data |-> ns]
    /\ UNCHANGED <<variant, budget, now, sess, ui>>
    /\ HistStep(0)

----------------------------------------------------------------------------
(* Host controls *)

\* variant 1: the button calls handleHostPlay when the cached roomState is paused,
\* handleHostPause when it is playing
HostButtonV1(s, play) ==
    /\ variant = 1
    /\ MainView(ui[s]) /\ ui[s].isHost
    /\ play = ~ui[s].roomState.isPlaying
    /\ ui[s].isReady
    /\ ops < budget.ops
    /\ IF Throws(pl[s])
       THEN /\ WritesNothing
            /\ UNCHANGED pl
       ELSE /\ InboxRoom(s)
            /\ pl' = [pl EXCEPT ![s] = IF play THEN playVideo(@) ELSE pauseVideo(@)]
            /\ WriteBy(s, ui[s].rid, UpdPlayTime(play, getCurrentTime(pl[s])), "command")
    /\ ops' = ops + 1
    /\ lastTick' = NoTick
    /\ lastEvent' = NoEvent
    /\ UNCHANGED <<variant, budget, now, sess, ui>>
    /\ HistStep(0)

\* variant 2: handleHostPlayPause toggles on the cached roomState.isPlaying
HostPlayPause(s) ==
    /\ variant = 2
    /\ MainView(ui[s]) /\ ui[s].isHost
    /\ ui[s].isReady /\ ui[s].rid # 0
    /\ ops < budget.ops
    /\ LET play == ~ui[s].roomState.isPlaying IN
       IF Throws(pl[s])
       THEN /\ WritesNothing
            /\ UNCHANGED pl
       ELSE /\ InboxRoom(s)
            /\ pl' = [pl EXCEPT ![s] = IF play THEN playVideo(@) ELSE pauseVideo(@)]
            /\ WriteBy(s, ui[s].rid, UpdPlayTime(play, getCurrentTime(pl[s])), "command")
    /\ ops' = ops + 1
    /\ lastTick' = NoTick
    /\ lastEvent' = NoEvent
    /\ UNCHANGED <<variant, budget, now, sess, ui>>
    /\ HistStep(0)

\* positions the host can release the scrubber on
SeekTargets == {800, 1300}

\* variant 2: handleSeekEnd(time)
HostSeek(s, t) ==
    /\ variant = 2
    /\ MainView(ui[s]) /\ ui[s].isHost
    /\ ui[s].rid # 0
    /\ ops < budget.ops
    /\ IF Throws(pl[s])
       THEN /\ WritesNothing
            /\ UNCHANGED pl
       ELSE /\ InboxRoom(s)
            /\ pl' = [pl EXCEPT ![s] = seekTo(@, t)]
            /\ WriteBy(s, ui[s].rid, UpdTime(t), "seek")
    /\ ops' = ops + 1
    /\ lastTick' = NoTick
    /\ lastEvent' = NoEvent
    /\ UNCHANGED <<variant, budget, now, sess, ui>>
    /\ HistStep(0)

----------------------------------------------------------------------------
(* Timers *)

Due(d) == d # Off /\ d <= now

\* variant 1: the host heartbeat interval (2000 ms)
Heartbeat(s) ==
    /\ variant = 1
    /\ Due(ui[s].beatDue)
    /\ ui' = [ui EXCEPT ![s].beatDue = now + HEARTBEAT_MS]
    /\ IF ~Throws(pl[s]) /\ getPlayerState(pl[s]) = PLAYING
       THEN /\ InboxRoom(s)
            /\ WriteBy(s, ui[s].rid, UpdTime(getCurrentTime(pl[s])), "heartbeat")
       ELSE WritesNothing
    /\ lastTick' = NoTick
    /\ lastEvent' = NoEvent
    /\ UNCHANGED <<variant, budget, now, sess, pl, ops>>
    /\ HistStep(0)

\* variant 2: updateUIAndHostSync (500 ms): setLocalCurrentTime(time); the host
\* branch has an empty body.  A changed localCurrentTime re-renders.
Progress(s) ==
    /\ variant = 2
    /\ Due(ui[s].beatDue)
    /\ LET time == getCurrentTime(pl[s]) IN
       ui' = [ui EXCEPT ![s] =
                IF Throws(pl[s]) \/ time = @.localCurrentTime
                THEN [@ EXCEPT !.beatDue = now + PROGRESS_MS]
                ELSE ArmTimers(variant, now, [@ EXCEPT !.localCurrentTime = time])]
    /\ WritesNothing
    /\ lastTick' = NoTick
    /\ lastEvent' = NoEvent
    /\ UNCHANGED <<variant, budget, now, sess, pl, ops>>
    /\ HistStep(0)

\* the listener sync interval (1000 ms) runs checkSync
Tick(s) ==
    /\ Due(ui[s].syncDue)
    /\ LET c == checkSync(variant, ui[s].roomState, now, pl[s]) IN
       IF Throws(pl[s])
       THEN /\ UNCHANGED pl
            /\ lastTick' = [NoTick EXCEPT !.by = s, !.threw = TRUE,
                               !.rs = ui[s].roomState, !.at = now]
       ELSE /\ pl' = [pl EXCEPT ![s] = ApplyCmds(@, c)]
            /\ lastTick' = [by |-> s, threw |-> FALSE,
                            rs |-> ui[s].roomState, at |-> now,
                            pos |-> getCurrentTime(pl[s]), st |-> getPlayerState(pl[s]),
                            want |-> pl[s].want,
                            seeks |-> c.seeks, plays |-> c.plays, pauses |-> c.pauses]
    /\ ui' = [ui EXCEPT ![s].syncDue = now + SYNC_MS]
    /\ WritesNothing
    /\ lastEvent' = NoEvent
    /\ UNCHANGED <<variant, budget, now, sess, ops>>
    /\ HistStep(s)

\* 500 ms pass: no timer is due, no event is pending and every player built has
\* reported ready; playing players advance
Advance ==
    /\ now + PROGRESS_MS <= budget.quanta * PROGRESS_MS
    /\ \A s \in Sessions :
          /\ inbox[s] = <<>>
          /\ ~Due(ui[s].syncDue)
          /\ ~Due(ui[s].beatDue)
          /\ ~Throws(pl[s])
    /\ now' = now + PROGRESS_MS
    /\ pl' = [s \in Sessions |->
                IF Callable(pl[s]) /\ pl[s].st = PLAYING
                THEN [pl[s] EXCEPT !.pos = @ + PROGRESS_MS] ELSE pl[s]]
    /\ WritesNothing
    /\ lastTick' = NoTick
    /\ lastEvent' = NoEvent
    /\ UNCHANGED <<variant, budget, sess, ui, ops>>
    /\ HistStep(0)

----------------------------------------------------------------------------

Next ==
    \/ \E s \in Sessions, vid \in Videos, r \in Ids, h \in UserIds : CreateRoom(s, vid, r, h)
    \/ \E s \in Sessions, r \in Ids, uid \in UserIds : JoinFromHome(s, r, uid)
    \/ \E s \in Sessions : GoHome(s)
    \/ \E s \in Sessions, r \in Ids, uid \in UserIds : ChangeRoom(s, r, uid)
    \/ \E s \in Sessions : Gesture(s)
    \/ \E s \in Sessions : Deliver(s)
    \/ \E s \in Sessions : PlayerReady(s)
    \/ \E s \in Sessions, ns \in {PLAYING, PAUSED, BUFFERING} : PlayerChange(s, ns)
    \/ \E s \in Sessions, play \in BOOLEAN : HostButtonV1(s, play)
    \/ \E s \in Sessions : HostPlayPause(s)
    \/ \E s \in Sessions, t \in SeekTargets : HostSeek(s, t)
    \/ \E s \in Sessions : Heartbeat(s)
    \/ \E s \in Sessions : Progress(s)
    \/ \E s \in Sessions : Tick(s)
    \/ Advance

Spec == Init /\ [][Next]_vars

\* One tab alone, with a larger budget of operations and time
SoloInit ==
    /\ variant \in {1, 2}
    /\ now = 0
    /\ store = [r \in Ids |-> NoState]
    /\ sess = [s \in Sessions |-> InitSess]
    /\ ui = [s \in Sessions |-> InitUi]
    /\ pl = [s \in Sessions |-> NoPlayer]
    /\ inbox = [s \in Sessions |-> <<>>]
    /\ ops = 0
    /\ budget = [tabs |-> {1}, ops |-> SoloOps, quanta |-> SoloQuanta]
    /\ lastTick = NoTick
    /\ lastWrite = NoWrite
    /\ lastEvent = NoEvent
    /\ hist = [s \in Sessions |-> NoHist]

SoloNext ==
    \/ \E vid \in SoloVideos, r \in Ids, h \in UserIds : CreateRoom(1, vid, r, h)
    \/ \E r \in Ids, uid \in UserIds : JoinFromHome(1, r, uid)
    \/ GoHome(1)
    \/ \E r \in Ids, uid \in UserIds : ChangeRoom(1, r, uid)
    \/ PlayerReady(1)
    \/ \E ns \in {PLAYING, PAUSED, BUFFERING} : PlayerChange(1, ns)
    \/ \E play \in BOOLEAN : HostButtonV1(1, play)
    \/ HostPlayPause(1)
    \/ \E t \in SeekTargets : HostSeek(1, t)
    \/ Heartbeat(1)
    \/ Progress(1)
    \/ Advance

SoloSpec == SoloInit /\ [][SoloNext]_vars


----------------------------------------------------------------------------
(* checkSync on drawn inputs: tab 1 is a Tracking listener of room 1 whose tick *)
(* is due; the cached RoomState, the clock and the player readings are drawn.   *)

TickTimestamps == {0, 10000, 55400}
TickElapsed == {0, 500, 3000}
TickPositions == {0, 9200, 9500, 10000, 10200, 10500, 10501, 10800, 10801, 13000, 55400}

\* the command a player in state st was last given
WantOf(st) ==
    IF st \in {PLAYING, BUFFERING} THEN "play"
    ELSE IF st = PAUSED THEN "pause" ELSE "none"

TickInit ==
    /\ variant \in {1, 2}
    /\ \E ts \in TickTimestamps, el \in TickElapsed, playing \in BOOLEAN,
          pos \in TickPositions, st \in {UNSTARTED, PLAYING, PAUSED, BUFFERING} :
          LET rs == [InitialState(1, 1, 1, 1000) EXCEPT
                        !.isPlaying = playing, !.timestamp = ts]
              u == [InitUi EXCEPT !.page = "room", !.rid = 1, !.roomState = rs,
                                  !.userInteracted = TRUE, !.isReady = TRUE, !.sub = 1,
                                  !.localCurrentTime = pos]
          IN  /\ now = 1000 + el
              /\ store = [r \in Ids |-> IF r = 1 THEN rs ELSE NoState]
              /\ ui = [s \in Sessions |->
                         IF s = 1
                         THEN [ArmTimers(variant, now, u) EXCEPT !.syncDue = now]
                         ELSE InitUi]
              /\ pl = [s \in Sessions |->
                         IF s = 1
                         THEN [NewPlayer(1, u) EXCEPT !.ready = TRUE, !.st = st,
                                                      !.pos = pos, !.want = WantOf(st)]
                         ELSE NoPlayer]
              /\ hist = [s \in Sessions |->
                           [NoHist EXCEPT !.tickRef = IF s = 1 THEN now - SYNC_MS ELSE Off]]
              /\ budget = [tabs |-> {1}, ops |-> 1,
                           quanta |-> (now \div PROGRESS_MS) + TickQuanta]
    /\ sess = [s \in Sessions |-> IF s = 1 THEN [roles |-> {}, userId |-> 1] ELSE InitSess]
    /\ inbox = [s \in Sessions |-> <<>>]
    /\ ops = 0
    /\ lastTick = NoTick
    /\ lastWrite = NoWrite
    /\ lastEvent = NoEvent

TickNext ==
    \/ Tick(1)
    \/ \E ns \in {PLAYING, PAUSED, BUFFERING} : PlayerChange(1, ns)
    \/ Progress(1)
    \/ Advance

TickSpec == TickInit /\ [][TickNext]_vars

----------------------------------------------------------------------------
(* Readings of the step just taken, restated from the claims *)

Ticked == lastTick.by # 0 /\ ~lastTick.threw

\* the position the host is at, extrapolated from the checkpoint the tick used
TickTarget ==
    IF lastTick.rs.isPlaying
    THEN lastTick.rs.timestamp + (lastTick.at - lastTick.rs.lastUpdated)
    ELSE lastTick.rs.timestamp

TickDrift == Abs(lastTick.pos - TickTarget)

Tolerance == IF variant = 1 THEN MAX_DRIFT_V1 ELSE MAX_DRIFT_V2

\* the session's sessionStorage binds it as host of the room
ResolvedHost(s, r) == r \in sess[s].roles

----------------------------------------------------------------------------
(* C1: single writer.  Every updateRoomState call that changes a stored      *)
(* RoomState is made by a tab whose resolved role for that room is host.     *)

C1_SingleWriter ==
    (lastWrite.applied /\ lastWrite.kind # "create")
        => ResolvedHost(lastWrite.by, lastWrite.room)

(* C2: a tick whose drift |localPosition - targetTime| is at most MAX_DRIFT  *)
(* (the boundary included) issues no seek and leaves the position alone,     *)
(* whatever isPlaying and the local player state are.                        *)

C2_NoSeekWithinTolerance ==
    (Ticked /\ TickDrift <= Tolerance)
        => /\ lastTick.seeks = <<>>
           /\ pl[lastTick.by].pos = lastTick.pos

C2_Witness_BoundaryDrift ==
    /\ Ticked
    /\ TickDrift = Tolerance
    /\ lastTick.seeks = <<>>

(* C3: a tick whose drift exceeds MAX_DRIFT issues exactly one seek, to       *)
(* targetTime = timestamp when paused and timestamp + (now - lastUpdated)     *)
(* when playing; timestamp 10.0 s, 3000 ms elapsed, local 10.2 s seeks 13.0 s *)

C3_SeekToTarget ==
    /\ (Ticked /\ TickDrift > Tolerance)
          => /\ lastTick.seeks = <<TickTarget>>
             /\ pl[lastTick.by].pos = TickTarget
    /\ (Ticked /\ lastTick.rs.isPlaying /\ lastTick.rs.timestamp = 10000
           /\ lastTick.at - lastTick.rs.lastUpdated = 3000 /\ lastTick.pos = 10200)
          => lastTick.seeks = <<13000>>
    /\ (Ticked /\ ~lastTick.rs.isPlaying /\ Abs(lastTick.pos - lastTick.rs.timestamp) > Tolerance)
          => lastTick.seeks = <<lastTick.rs.timestamp>>

C3_Witness_Scenario ==
    /\ Ticked
    /\ lastTick.rs.isPlaying /\ lastTick.rs.timestamp = 10000
    /\ lastTick.at - lastTick.rs.lastUpdated = 3000
    /\ lastTick.pos = 10200
    /\ lastTick.seeks = <<13000>>

(* C4: in a tick with isPlaying true, a paused or unstarted player gets       *)
(* exactly one play command, again on every tick while it stays so; a player  *)
(* that is buffering or playing gets none.                                    *)

C4_PlayOncePerTick ==
    (Ticked /\ lastTick.rs.isPlaying)
        => /\ lastTick.st \in {PAUSED, UNSTARTED}
                => (lastTick.plays = 1 /\ pl[lastTick.by].want = "play")
           /\ lastTick.st \in {PLAYING, BUFFERING} => lastTick.plays = 0

\* a tick finds the player still paused after an earlier play command, and plays again
C4_Witness_PlayRepeated ==
    /\ Ticked
    /\ lastTick.rs.isPlaying
    /\ lastTick.st = PAUSED /\ lastTick.want = "play"
    /\ lastTick.plays = 1

(* C5: in a tick with isPlaying false and the player playing, one pause is    *)
(* issued whether or not the tick also seeks; timestamp 55.4 s, local 55.4 s, *)
(* playing: no seek, one pause.                                               *)

C5_PauseIndependentOfSeek ==
    /\ (Ticked /\ ~lastTick.rs.isPlaying /\ lastTick.st = PLAYING)
          => /\ lastTick.pauses = 1
             /\ lastTick.plays = 0
             /\ pl[lastTick.by].want = "pause"
    /\ (Ticked /\ ~lastTick.rs.isPlaying /\ lastTick.st = PLAYING
           /\ lastTick.rs.timestamp = 55400 /\ lastTick.pos = 55400)
          => (lastTick.seeks = <<>> /\ lastTick.pauses = 1)

C5_Witness_Scenario ==
    /\ Ticked
    /\ ~lastTick.rs.isPlaying /\ lastTick.st = PLAYING
    /\ lastTick.rs.timestamp = 55400 /\ lastTick.pos = 55400
    /\ lastTick.seeks = <<>> /\ lastTick.pauses = 1

(* C6: the sync timer runs, and a tick issues commands, only in a tab that is *)
(* a listener, whose player reported ready, that holds a RoomState and whose  *)
(* user made the gesture.                                                     *)

IsTracking(s) ==
    /\ ~ui[s].isHost
    /\ ui[s].isReady
    /\ IsState(ui[s].roomState)
    /\ ui[s].userInteracted

Quiescent == \A s \in Sessions : inbox[s] = <<>>

C7_SubscribersConverge ==
    Quiescent =>
        \A s \in Sessions :
            (ui[s].page = "room" /\ ui[s].sub # 0)
                => ui[s].roomState = getRoomState(store, ui[s].sub)

(* C8: while a listener is Tracking, a tick runs within one tick period        *)
(* (1000 ms) of its entry to Tracking and of its previous tick, whatever       *)
(* notifications, other timers or re-renders happen in between.                *)

C8_TickWithinPeriod ==
    \A s \in Sessions :
        Tracking(ui[s]) => now - hist[s].tickRef <= SYNC_MS

(* C9: on the host of a room, a player transition to playing or to paused      *)
(* writes {isPlaying, timestamp: the player's current time} to that room, and  *)
(* a transition to any other state writes nothing.                             *)

C9_HostTransitionsWrite ==
    LET s == lastEvent.by IN
    (s # 0 /\ ui[s].page = "room" /\ ui[s].isHost /\ ResolvedHost(s, ui[s].rid))
        => IF lastEvent.data \in {PLAYING, PAUSED}
           THEN /\ lastWrite = [by |-> s, room |-> ui[s].rid, kind |-> "event",
                                applied |-> TRUE]
                /\ store[ui[s].rid].isPlaying = (lastEvent.data = PLAYING)
                /\ store[ui[s].rid].timestamp = getCurrentTime(pl[s])
                /\ store[ui[s].rid].lastUpdated = now
           ELSE lastWrite = NoWrite

(* C10: while the host's player has been playing without interruption for a   *)
(* heartbeat period (2000 ms) or more, the stored lastUpdated of its room is   *)
(* at most one heartbeat period old.                                           *)

C10_HeartbeatFreshness ==
    \A s \in Sessions :
        (hist[s].playRef # Off /\ now - hist[s].playRef >= HEARTBEAT_MS)
            => now - getRoomState(store, ui[s].rid).lastUpdated <= HEARTBEAT_MS


----------------------------------------------------------------------------
(* roomService on drawn inputs: the store holds drawn rooms, every tab is on  *)
(* the Home page, and updateRoomState is called with drawn partial updates.   *)

StoreTimestamps == {0, 7000, 42000}

\* the rooms the drawn calls name: stored or absent
StoreIds == 1..NumStoreIds

\* the partial updates the callers of updateRoomState build
Updates ==
    {UpdPlayTime(p, t) : p \in BOOLEAN, t \in StoreTimestamps}
        \cup {UpdTime(t) : t \in StoreTimestamps}

StoreInit ==
    /\ variant \in {1, 2}
    /\ now \in {0, PROGRESS_MS}
    /\ store \in {[r \in Ids |-> IF r \in R THEN InitialState(r, 1, 1, 0) ELSE NoState] :
                     R \in SUBSET StoreIds}
    /\ sess = [s \in Sessions |-> InitSess]
    /\ ui = [s \in Sessions |-> InitUi]
    /\ pl = [s \in Sessions |-> NoPlayer]
    /\ inbox = [s \in Sessions |-> <<>>]
    /\ ops = 0
    /\ budget = [tabs |-> {1}, ops |-> 0, quanta |-> StoreQuanta]
    /\ lastTick = NoTick
    /\ lastWrite = NoWrite
    /\ lastEvent = NoEvent
    /\ hist = [s \in Sessions |-> NoHist]

\* updateRoomState(r, upd) called in tab s
MergeCall(s, r, upd) ==
    /\ s \in budget.tabs
    /\ WriteBy(s, r, upd, "merge")
    /\ lastTick' = NoTick
    /\ lastEvent' = NoEvent
    /\ UNCHANGED <<variant, budget, now, sess, ui, pl, ops>>
    /\ HistStep(0)

StoreNext ==
    \/ \E s \in Sessions, r \in StoreIds, upd \in Updates : MergeCall(s, r, upd)
    \/ Advance

StoreSpec == StoreInit /\ [][StoreNext]_vars

(* C14: write-then-read.  After updateRoomState on an existing room,           *)
(* getRoomState returns every field the partial update names as written and   *)
(* lastUpdated = the clock of the write; {isPlaying: true, timestamp: 42}     *)
(* reads back as isPlaying = true, timestamp = 42.                            *)

C14_WriteThenRead ==
    [][\A s \in Sessions, r \in Ids, upd \in Updates :
          (MergeCall(s, r, upd) /\ IsState(getRoomState(store, r)))
             => LET rd == getRoomState(store', r)
                IN  /\ upd.hasPlaying => rd.isPlaying = upd.isPlaying
                    /\ upd.hasTimestamp => rd.timestamp = upd.timestamp
                    /\ rd.lastUpdated = now
                    /\ upd = UpdPlayTime(TRUE, 42000)
                          => (rd.isPlaying /\ rd.timestamp = 42000)]_vars

C14_Witness_Read42 ==
    /\ lastWrite.kind = "merge" /\ lastWrite.applied
    /\ getRoomState(store, lastWrite.room).isPlaying
    /\ getRoomState(store, lastWrite.room).timestamp = 42000
    /\ getRoomState(store, lastWrite.room).lastUpdated = now
    /\ now > 0

(* C15: merge is idempotent.  After updateRoomState(r, upd), calling it again  *)
(* with the same update at the same clock reading leaves the store as it is.  *)

C15_MergeIdempotent ==
    [][\A s \in Sessions, r \in Ids, upd \in Updates :
          MergeCall(s, r, upd)
             => updateRoomState(store', r, upd, now) = store']_vars

\* a merge has just moved a stored timestamp; repeating it changes nothing
C15_Witness_Repeated ==
    /\ lastWrite.kind = "merge" /\ lastWrite.applied
    /\ getRoomState(store, lastWrite.room).timestamp = 7000
    /\ ~getRoomState(store, lastWrite.room).isPlaying
    /\ updateRoomState(store, lastWrite.room, UpdTime(7000), now) = store


----------------------------------------------------------------------------
(* The Home page's create form on drawn media references *)

\* A media reference as extractVideoId's pattern sees it: blank or not, whether
\* it holds one of the markers (youtu.be/, v/, /u/x/, embed/, watch?), and the
\* run of characters captured after the marker (its length, and the video it names)
MediaRef(b, m, n, v) == [blank |-> b, marker |-> m, idLen |-> n, id |-> v]

\* blank input, text without a marker, captures that are empty, one short, one
\* long, and a well-formed reference to each video
MediaRefs ==
    {MediaRef(TRUE, FALSE, 0, 0), MediaRef(FALSE, FALSE, 11, 1),
     MediaRef(FALSE, TRUE, 0, 1), MediaRef(FALSE, TRUE, 10, 1), MediaRef(FALSE, TRUE, 12, 1)}
        \cup {MediaRef(FALSE, TRUE, 11, v) : v \in Videos}

\* part_003's DEMO_VIDEO: https://www.youtube.com/watch?v=LXb3EKWsInQ
DemoRef == [blank |-> FALSE, marker |-> TRUE, idLen |-> 11, id |-> 1]

\* the two builds of the Home page
HomeBuilds == {"Home.tsx", "part_003"}

\* part_003: videoUrl.trim() || DEMO_VIDEO; Home.tsx: videoUrl
UrlToUse(hb, ref) == IF hb = "part_003" /\ ref.blank THEN DemoRef ELSE ref

\* extractVideoId accepting a capture of any length
extractVideoId_AnyLength(ref) ==
    IF ~ref.blank /\ ref.marker THEN ref.id ELSE 0

\* (match && match[7].length === 11) ? match[7] : null, null = 0
extractVideoId(ref) ==
    IF ~ref.blank /\ ref.marker /\ ref.idLen = 11 THEN ref.id ELSE 0

\* handleCreate in build hb with the form holding ref: alert and return when no
\* id is extracted, createRoom(id) and navigate otherwise
HandleCreate(s, hb, ref, r, h) ==
    LET id == extractVideoId(UrlToUse(hb, ref)) IN
    IF id = 0
    THEN /\ ui[s].page = "home"
         /\ ops < budget.ops
         /\ ops' = ops + 1
         /\ lastWrite' = [by |-> s, room |-> 0, kind |-> "rejected", applied |-> FALSE]
         /\ lastTick' = NoTick
         /\ lastEvent' = NoEvent
         /\ UNCHANGED <<variant, budget, now, store, inbox, sess, ui, pl>>
         /\ HistStep(0)
    ELSE CreateRoom(s, id, r, h)

HomeInit ==
    /\ variant \in {1, 2}
    /\ now = 0
    /\ store = [r \in Ids |-> NoState]
    /\ sess = [s \in Sessions |-> InitSess]
    /\ ui = [s \in Sessions |-> InitUi]
    /\ pl = [s \in Sessions |-> NoPlayer]
    /\ inbox = [s \in Sessions |-> <<>>]
    /\ ops = 0
    /\ budget = [tabs |-> {1}, ops |-> HomeOps, quanta |-> 0]
    /\ lastTick = NoTick
    /\ lastWrite = NoWrite
    /\ lastEvent = NoEvent
    /\ hist = [s \in Sessions |-> NoHist]

HomeNext ==
    \/ \E hb \in HomeBuilds, ref \in MediaRefs, r \in Ids, h \in UserIds :
          HandleCreate(1, hb, ref, r, h)
    \/ \E r \in Ids, uid \in UserIds : JoinFromHome(1, r, uid)
    \/ \E r \in Ids, uid \in UserIds : ChangeRoom(1, r, uid)
    \/ GoHome(1)

HomeSpec == HomeInit /\ [][HomeNext]_vars

(* C20: a create request whose media reference yields no 11-character media id *)
(* changes no stored RoomState, creates no room, leaves the role bindings as   *)
(* they were and keeps the tab on the Home page.                               *)

C20_InvalidMediaRejected ==
    [][\A s \in Sessions, hb \in HomeBuilds, ref \in MediaRefs, r \in Ids, h \in UserIds :
          LET used == UrlToUse(hb, ref) IN
          (/\ ~(~used.blank /\ used.marker /\ used.idLen = 11)
           /\ ui[s].page = "home"
           /\ ops' = ops + 1
           /\ HandleCreate(s, hb, ref, r, h))
             => /\ store' = store
                /\ sess' = sess
                /\ ui' = ui]_vars

\* a request was just rejected while a room created earlier is still stored as it was
C20_Witness_Rejected ==
    /\ lastWrite.kind = "rejected"
    /\ ui[lastWrite.by].page = "home"
    /\ \E r \in Ids : IsState(store[r])
    /\ \E s \in Sessions : sess[s].roles # {}


(* C11: a heartbeat step (the variant 1 heartbeat interval, the variant 2      *)
(* progress interval) leaves isPlaying, roomId, hostId and videoId of every    *)
(* stored RoomState as they were, and changes nothing at all in the store      *)
(* when the host's player is not playing.                                     *)

SameIdentity(a, b) ==
    a.roomId = b.roomId /\ a.hostId = b.hostId /\ a.videoId = b.videoId

C11_HeartbeatFrame ==
    [][\A s \in Sessions :
          (Heartbeat(s) \/ Progress(s))
             => /\ \A r \in Ids : /\ store'[r].isPlaying = store[r].isPlaying
                                  /\ SameIdentity(store'[r], store[r])
                /\ getPlayerState(pl[s]) # PLAYING => store' = store]_vars

\* a heartbeat has just written a checkpoint into a playing room
C11_Witness_HeartbeatWrote ==
    /\ lastWrite.kind = "heartbeat" /\ lastWrite.applied
    /\ store[lastWrite.room].isPlaying
    /\ store[lastWrite.room].lastUpdated = now
    /\ store[lastWrite.room].timestamp = getCurrentTime(pl[lastWrite.by])
    /\ now >= HEARTBEAT_MS

(* C12: a host seek to position p stores timestamp = p in the host's room in   *)
(* the same step, with the clock value of the step, and leaves isPlaying as it *)
(* was, whether the room is playing or paused.                                *)

C12_SeekWrites ==
    [][\A s \in Sessions, t \in SeekTargets :
          HostSeek(s, t)
             => /\ store'[ui[s].rid].timestamp = t
                /\ store'[ui[s].rid].lastUpdated = now
                /\ store'[ui[s].rid].isPlaying = store[ui[s].rid].isPlaying]_vars

(* C13: a host play (pause) command commands the local player to play (pause)  *)
(* and, in the same step, stores isPlaying = true (false) with the player's     *)
(* current time in the host's room.                                           *)

C13_CommandWrites ==
    [][\A s \in Sessions :
          ((\E play \in BOOLEAN : HostButtonV1(s, play)) \/ HostPlayPause(s))
             => LET play == ~ui[s].roomState.isPlaying
                    rid == ui[s].rid
                IN  /\ pl'[s].want = IF play THEN "play" ELSE "pause"
                    /\ store'[rid].isPlaying = play
                    /\ store'[rid].timestamp = getCurrentTime(pl[s])
                    /\ store'[rid].lastUpdated = now]_vars


(* C16: no step other than a room creation changes roomId, hostId or videoId  *)
(* of a stored RoomState or removes it, and every step that changes a stored  *)
(* RoomState sets its lastUpdated to the clock of the step.                   *)

C16_IdentityImmutable ==
    [][lastWrite'.kind # "create"
          => \A r \in Ids :
                IsState(store[r])
                   => /\ SameIdentity(store'[r], store[r])
                      /\ store'[r] # store[r] => store'[r].lastUpdated = now']_vars

\* a host write has just changed a room that was created earlier
C16_Witness_Mutated ==
    /\ lastWrite.kind \in {"event", "command", "seek", "heartbeat"}
    /\ lastWrite.applied
    /\ store[lastWrite.room].roomId = lastWrite.room
    /\ store[lastWrite.room].hostId \in UserIds
    /\ store[lastWrite.room].videoId \in Videos
    /\ store[lastWrite.room].lastUpdated = now
    /\ now > 0

(* C17: a session resolves to host of a room exactly when it created the room, *)
(* so at most one session holds the host binding of a room.                    *)

C17_OneHostPerRoom ==
    \A r \in Ids : Cardinality({s \in Sessions : ResolvedHost(s, r)}) <= 1

(* C18: createRoom picks an identifier under which no RoomState is stored, so  *)
(* it never replaces the RoomState of an existing room.                        *)

C18_FreshRoomId ==
    [][\A s \in Sessions, vid \in SoloVideos, r \in Ids, h \in UserIds :
          CreateRoom(s, vid, r, h) => ~IsState(getRoomState(store, r))]_vars

(* C19: a tab whose join of its current roomId failed (error shown, nothing     *)
(* subscribed) is not host, has no heartbeat or reconciliation timer running,  *)
(* and neither writes nor commands its player.                                 *)

C19_FailedJoinInert ==
    \A s \in Sessions :
        (ui[s].page = "room" /\ ui[s].error /\ ui[s].sub = 0)
            => /\ ~ui[s].isHost
               /\ ui[s].syncDue = Off
               /\ variant = 1 => ui[s].beatDue = Off
               /\ lastWrite.by # s
               /\ lastTick.by # s

----------------------------------------------------------------------------
(* C21: after a tab has left a room (the Room page unmounted, or its roomId   *)
(* changed), its timers and its subscription for that room are gone: a tab on *)
(* the Home page has no timer and no subscription, a subscription is always   *)
(* for the tab's current roomId, and every host write and every tick of a tab *)
(* is for the room the tab is in.                                             *)

HostWriteKinds == {"event", "command", "seek", "heartbeat"}

C21_LeaveCancels ==
    /\ \A s \in Sessions :
          /\ ui[s].page = "home"
                => (ui[s].sub = 0 /\ ui[s].syncDue = Off /\ ui[s].beatDue = Off)
          /\ ui[s].sub # 0 => ui[s].sub = ui[s].rid
    /\ lastWrite.kind \in HostWriteKinds
          => /\ ui[lastWrite.by].page = "room"
             /\ lastWrite.room = ui[lastWrite.by].rid
    /\ lastTick.by # 0 => ui[lastTick.by].page = "room"

(* C22: an updateRoomState call on a roomId with no stored RoomState leaves    *)
(* the store as it is, queues no notification, and tells its caller that it    *)
(* failed: it throws, or returns something other than what an applied write    *)
(* returns.                                                                    *)

C22_FailedWriteSurfaced ==
    [][\A s \in Sessions, r \in Ids, upd \in Updates :
          (~IsState(getRoomState(store, r)) /\ MergeCall(s, r, upd))
             => /\ store' = store
                /\ inbox' = inbox
                /\ LET ret == updateRoomStateReturn(store, r)
                   IN  ret.threw \/ ret.value # Undefined]_vars

(* C23: for a cached RoomState with isPlaying = true the extrapolated position *)
(* timestamp + (t - lastUpdated) that checkSync uses as targetTime does not    *)
(* decrease when the wall-clock reading t grows: for t1 <= t2 the target at t1 *)
(* is at most the target at t2.                                                *)

\* the wall-clock readings of a behaviour, those before lastUpdated included
Instants == {q * PROGRESS_MS : q \in 0..budget.quanta}

C23_TargetMonotone ==
    \A s \in Sessions :
        (IsState(ui[s].roomState) /\ ui[s].roomState.isPlaying)
            => LET rs == ui[s].roomState IN
               /\ TargetTime(rs, now) = rs.timestamp + (now - rs.lastUpdated)
               /\ \A t1, t2 \in Instants :
                     t1 <= t2 => TargetTime(rs, t1) <= TargetTime(rs, t2)

\* a tick used the target of a playing room one tick period or more after its
\* checkpoint; the target one period earlier was smaller
C23_Witness_LaterTarget ==
    /\ Ticked
    /\ lastTick.rs.isPlaying
    /\ lastTick.at >= lastTick.rs.lastUpdated + SYNC_MS
    /\ TargetTime(lastTick.rs, lastTick.at - SYNC_MS) < TargetTime(lastTick.rs, lastTick.at)
    /\ lastTick.seeks = <<TargetTime(lastTick.rs, lastTick.at)>>

(* C27: when the last tick of a listener seeked, the RoomState it caches is    *)
(* still the same and its player has since stayed in step (advancing with the  *)
(* clock from the seek's target when the room plays, resting on it when the    *)
(* room is paused), its next tick issues no seek.                              *)

\* since the seek recorded for tab s its player has stayed in step with the room
InStep(s) ==
    LET k == hist[s].seek IN
    /\ k.at # Off
    /\ pl[s].pos = IF ui[s].roomState.isPlaying THEN k.to + (now - k.at) ELSE k.to

C27_NoSeekThrash ==
    [][\A s \in Sessions :
          (/\ hist[s].seek.at # Off
           /\ hist[s].tickRef = hist[s].seek.at
           /\ InStep(s)
           /\ Tick(s))
             => lastTick'.seeks = <<>>]_vars

\* the second tick of a playing room, one period after a tick that seeked, found
\* the player where the seek put it plus the period, and did not seek
C27_Witness_SecondTick ==
    /\ Ticked
    /\ lastTick.rs.isPlaying
    /\ hist[lastTick.by].seek.at # Off
    /\ lastTick.at = hist[lastTick.by].seek.at + SYNC_MS
    /\ lastTick.pos = hist[lastTick.by].seek.to + SYNC_MS
    /\ lastTick.seeks = <<>>

----------------------------------------------------------------------------
(* Listeners of a room whose host runs in a tab that is not among the modelled *)
(* ones: tab 1 is a Tracking listener of room 1 whose tick is due.             *)

\* the partial updates the host writes: play, pause, seek / heartbeat checkpoint
HostUpdates ==
    {UpdPlayTime(TRUE, 300), UpdPlayTime(FALSE, 300), UpdPlayTime(FALSE, 1300), UpdTime(300)}

ListenInit(tabs, maxOps, quanta) ==
    /\ variant \in {1, 2}
    /\ now = 1000
    /\ \E playing \in BOOLEAN :
          LET rs == [InitialState(1, 1, 1, now) EXCEPT !.isPlaying = playing]
              u == [InitUi EXCEPT !.page = "room", !.rid = 1, !.roomState = rs,
                                  !.userInteracted = TRUE, !.isReady = TRUE, !.sub = 1]
          IN  /\ store = [r \in Ids |-> IF r = 1 THEN rs ELSE NoState]
              /\ ui = [s \in Sessions |->
                         IF s = 1
                         THEN [ArmTimers(variant, now, u) EXCEPT !.syncDue = now]
                         ELSE InitUi]
              /\ pl = [s \in Sessions |->
                         IF s = 1 THEN [NewPlayer(1, u) EXCEPT !.ready = TRUE] ELSE NoPlayer]
    /\ sess = [s \in Sessions |-> IF s = 1 THEN [roles |-> {}, userId |-> 1] ELSE InitSess]
    /\ inbox = [s \in Sessions |-> <<>>]
    /\ ops = 0
    /\ budget = [tabs |-> tabs, ops |-> maxOps, quanta |-> quanta]
    /\ lastTick = NoTick
    /\ lastWrite = NoWrite
    /\ lastEvent = NoEvent
    /\ hist = [s \in Sessions |->
                 [NoHist EXCEPT !.tickRef = IF s = 1 THEN now - SYNC_MS ELSE Off]]

\* the host's tab calls updateRoomState(r, upd): every modelled tab with a
\* listener is sent the `storage` event
RemoteWrite(r, upd) ==
    /\ ops < budget.ops
    /\ InboxRoom(0)
    /\ WriteBy(0, r, upd, "remote")
    /\ ops' = ops + 1
    /\ lastTick' = NoTick
    /\ lastEvent' = NoEvent
    /\ UNCHANGED <<variant, budget, now, sess, ui, pl>>
    /\ HistStep(0)

\* Two listeners: tab 1 is there from the start, tab 2 joins later
PairInit == ListenInit({1, 2}, PairOps, PairQuanta)

PairNext ==
    \/ \E upd \in HostUpdates : RemoteWrite(1, upd)
    \/ \E uid \in UserIds : JoinFromHome(2, 1, uid)
    \/ \E s \in Sessions : Gesture(s)
    \/ \E s \in Sessions : Deliver(s)
    \/ \E s \in Sessions : PlayerReady(s)
    \/ \E s \in Sessions, ns \in {PLAYING, PAUSED, BUFFERING} : PlayerChange(s, ns)
    \/ \E s \in Sessions : Progress(s)
    \/ \E s \in Sessions : Tick(s)
    \/ Advance

PairSpec == PairInit /\ [][PairNext]_vars

\* One listener with a responsive player: events are delivered, timers fire, the
\* clock runs and the player goes where it was last told to, without stalling
PauseInit == ListenInit({1}, PauseOps, PauseQuanta)

Responds(s) == \E ns \in {PLAYING, PAUSED} : PlayerChange(s, ns)

PauseNext ==
    \/ \E upd \in HostUpdates : RemoteWrite(1, upd)
    \/ Deliver(1)
    \/ Responds(1)
    \/ Progress(1)
    \/ Tick(1)
    \/ Advance

PauseSpec ==
    /\ PauseInit /\ [][PauseNext]_vars
    /\ WF_vars(Deliver(1)) /\ WF_vars(Responds(1)) /\ WF_vars(Progress(1))
    /\ WF_vars(Tick(1)) /\ WF_vars(Advance)

(* C24: a tick is memoryless.  When a listener ticks while another Tracking    *)
(* listener caches the same RoomState and its player gives the same position   *)
(* and state readings, the tick issues exactly the commands a tick of the      *)
(* other listener would issue at this instant, whatever the two tabs received  *)
(* and commanded before.                                                       *)

SameReadings(a, b) ==
    /\ getCurrentTime(pl[a]) = getCurrentTime(pl[b])
    /\ getPlayerState(pl[a]) = getPlayerState(pl[b])

C24_TickMemoryless ==
    [][\A a, b \in Sessions :
          (/\ a # b
           /\ Tracking(ui[b]) /\ Callable(pl[a]) /\ Callable(pl[b])
           /\ ui[a].roomState = ui[b].roomState
           /\ SameReadings(a, b)
           /\ Tick(a))
             => LET c == checkSync(variant, ui[b].roomState, now, pl[b])
                IN  /\ lastTick'.seeks = c.seeks
                    /\ lastTick'.plays = c.plays
                    /\ lastTick'.pauses = c.pauses]_vars

\* tab 1 cached the room's earlier state and told its player to play; tab 2 joined
\* after the host's next write and told its player nothing.  Tab 1 has just ticked
\* on the state and the readings tab 2 has, and played again.
C24_Witness_DifferentHistories ==
    /\ Ticked /\ lastTick.by = 1
    /\ lastTick.want = "play" /\ lastTick.st = UNSTARTED
    /\ lastTick.rs.timestamp = 300 /\ lastTick.rs.isPlaying
    /\ Tracking(ui[2]) /\ ui[2].roomState = lastTick.rs
    /\ pl[2].want = "none" /\ pl[2].st = UNSTARTED /\ pl[2].pos = lastTick.pos
    /\ lastTick.plays = 1

(* C25: a Tracking listener with a responsive player that caches the host's    *)
(* pause at position p, the latest write to the room, ends with its player not *)
(* playing and within MAX_DRIFT of p, unless the host writes again first.      *)

Horizon == budget.quanta * PROGRESS_MS

\* listener s caches a paused RoomState that is the stored one
HoldsPause(s) ==
    /\ Tracking(ui[s]) /\ Callable(pl[s])
    /\ ~ui[s].roomState.isPlaying
    /\ inbox[s] = <<>>
    /\ ui[s].roomState = getRoomState(store, ui[s].sub)

\* the player of s is in the state it was last told to be in
Settled(s) == pl[s].want = WantOf(pl[s].st)

Converged(s) ==
    /\ pl[s].st \notin {PLAYING, BUFFERING}
    /\ Abs(pl[s].pos - ui[s].roomState.timestamp) <= Tolerance

\* the player was told to pause by a tick and let time pass without pausing
Unresponsive(s) ==
    pl[s].want = "pause" /\ pl[s].st = PLAYING /\ now > hist[s].tickRef

C26_WritesSerialized ==
    [][/\ ~lastWrite'.applied => store' = store
       /\ (lastWrite'.applied /\ lastWrite'.kind \in HostWriteKinds)
            => LET r == lastWrite'.room
                   s == lastWrite'.by
                   k == lastWrite'.kind
               IN  /\ \A q \in Ids \ {r} : store'[q] = store[q]
                   /\ SameIdentity(store'[r], store[r])
                   /\ store'[r].lastUpdated = now
                   /\ store'[r].timestamp =
                         IF k = "seek" THEN pl'[s].pos ELSE getCurrentTime(pl[s])
                   /\ store'[r].isPlaying =
                         IF k = "event" THEN lastEvent'.data = PLAYING
                         ELSE IF k = "command" THEN pl'[s].want = "play"
                         ELSE store[r].isPlaying]_vars

\* after a play command and the player's playing event, a seek has just been
\* written: the room still plays, at the position of the seek
C26_Witness_SeekAfterPlay ==
    /\ lastWrite.kind = "seek" /\ lastWrite.applied
    /\ pl[lastWrite.by].st = PLAYING
    /\ store[lastWrite.room].isPlaying
    /\ store[lastWrite.room].timestamp = pl[lastWrite.by].pos
    /\ store[lastWrite.room].timestamp \in SeekTargets
    /\ store[lastWrite.room].lastUpdated = now

(* C28: an adapter call made while the tab's player is not ready (not built    *)
(* yet, or built and its onReady still to come) is a no-op: it raises no       *)
(* error, leaves the player as it is and reads the current time as 0.          *)

\* the steps of tab s that call the adapter's controls
CallsAdapter(s) ==
    \/ Tick(s)
    \/ Heartbeat(s)
    \/ Progress(s)
    \/ \E play \in BOOLEAN : HostButtonV1(s, play)
    \/ HostPlayPause(s)
    \/ \E t \in SeekTargets : HostSeek(s, t)

C28_UninitializedInert ==
    [][\A s \in Sessions :
          (~Callable(pl[s]) /\ CallsAdapter(s))
             => /\ ~Throws(pl[s])
                /\ pl'[s] = pl[s]
                /\ getCurrentTime(pl[s]) = 0]_vars

(* C30: the host's play / pause toggle is chosen from the isPlaying last       *)
(* written to its room and writes the opposite value: from isPlaying = false   *)
(* a first toggle plays and writes true, a second one pauses and writes false. *)

C30_ToggleAlternates ==
    [][\A s \in Sessions :
          (/\ Callable(pl[s])
           /\ ResolvedHost(s, ui[s].rid)
           /\ IsState(getRoomState(store, ui[s].rid))
           /\ (\E play \in BOOLEAN : HostButtonV1(s, play)) \/ HostPlayPause(s))
             => LET latest == getRoomState(store, ui[s].rid).isPlaying
                IN  /\ pl'[s].want = IF latest THEN "pause" ELSE "play"
                    /\ getRoomState(store', ui[s].rid).isPlaying = ~latest]_vars

----------------------------------------------------------------------------
(* A tab opened directly on a room's URL: the Room page mounts while the       *)
(* IFrame API script is still loading.  Every room id is stored, room r with   *)
(* video r, and the tab's sessionStorage may bind it as host of some of them.  *)

LoadInit ==
    /\ variant \in {1, 2}
    /\ now = 0
    /\ store = [r \in Ids |-> InitialState(r, 1, IF r \in SoloVideos THEN r ELSE 1, 0)]
    /\ \E r0 \in Ids, roles \in SUBSET Ids :
          LET jr == joinRoom(store, [roles |-> roles, userId |-> 1], r0, 1)
              m == MountRoomWith(variant, now, r0, jr, [NoPlayer EXCEPT !.api = FALSE])
          IN  /\ sess = [s \in Sessions |-> IF s = 1 THEN jr.sess ELSE InitSess]
              /\ ui = [s \in Sessions |-> IF s = 1 THEN m.ui ELSE InitUi]
              /\ pl = [s \in Sessions |-> IF s = 1 THEN m.pl ELSE NoPlayer]
    /\ inbox = [s \in Sessions |-> <<>>]
    /\ ops = 0
    /\ budget = [tabs |-> {1}, ops |-> LoadOps, quanta |-> LoadQuanta]
    /\ lastTick = NoTick
    /\ lastWrite = NoWrite
    /\ lastEvent = NoEvent
    /\ hist = [s \in Sessions |-> NoHist]

LoadNext ==
    \/ ApiLoaded(1)
    \/ \E r \in Ids, uid \in UserIds : ChangeRoom(1, r, uid)
    \/ Gesture(1)
    \/ PlayerReady(1)
    \/ \E ns \in {PLAYING, PAUSED, BUFFERING} : PlayerChange(1, ns)
    \/ \E play \in BOOLEAN : HostButtonV1(1, play)
    \/ HostPlayPause(1)
    \/ \E t \in SeekTargets : HostSeek(1, t)
    \/ Heartbeat(1)
    \/ Progress(1)
    \/ Tick(1)
    \/ Advance

LoadSpec == LoadInit /\ [][LoadNext]_vars

(* C29: the player a tab holds is bound to the media identifier the adapter    *)
(* was last given, also when the identifier changed before the API script had  *)
(* loaded; and once the script has loaded and an identifier is given, the tab  *)
(* holds a player.                                                             *)

C29_CleanReinit ==
    \A s \in Sessions :
        /\ pl[s].inst => pl[s].vid = ui[s].roomState.videoId
        /\ (ui[s].page = "room" /\ pl[s].api /\ ui[s].roomState.videoId # 0)
              => pl[s].inst

----------------------------------------------------------------------------
(* A listener that moves between rooms whose host runs in a tab that is not    *)
(* among the modelled ones.  Every room id is stored; tab 1 starts on the Room *)
(* page of one of them.  The dispatch of a `storage` event is a task of the    *)
(* receiving tab's event loop, so the clock may move on while it is queued.    *)

\* time passes while a `storage` event is still queued in some tab
Elapse ==
    /\ now + PROGRESS_MS <= budget.quanta * PROGRESS_MS
    /\ \E s \in Sessions : inbox[s] # <<>>
    /\ \A s \in Sessions :
          /\ ~Due(ui[s].syncDue)
          /\ ~Due(ui[s].beatDue)
          /\ ~Throws(pl[s])
    /\ now' = now + PROGRESS_MS
    /\ pl' = [s \in Sessions |->
                IF Callable(pl[s]) /\ pl[s].st = PLAYING
                THEN [pl[s] EXCEPT !.pos = @ + PROGRESS_MS] ELSE pl[s]]
    /\ WritesNothing
    /\ lastTick' = NoTick
    /\ lastEvent' = NoEvent
    /\ UNCHANGED <<variant, budget, sess, ui, ops>>
    /\ HistStep(0)

RoamInit ==
    /\ variant \in {1, 2}
    /\ now = 0
    /\ store = [r \in Ids |-> InitialState(r, 1, 1, 0)]
    /\ \E r0 \in Ids :
          LET jr == joinRoom(store, [roles |-> {}, userId |-> 1], r0, 1)
              m == MountRoom(variant, now, r0, jr)
          IN  /\ sess = [s \in Sessions |-> IF s = 1 THEN jr.sess ELSE InitSess]
              /\ ui = [s \in Sessions |-> IF s = 1 THEN m.ui ELSE InitUi]
              /\ pl = [s \in Sessions |-> IF s = 1 THEN m.pl ELSE NoPlayer]
    /\ inbox = [s \in Sessions |-> <<>>]
    /\ ops = 0
    /\ budget = [tabs |-> {1}, ops |-> RoamOps, quanta |-> RoamQuanta]
    /\ lastTick = NoTick
    /\ lastWrite = NoWrite
    /\ lastEvent = NoEvent
    /\ hist = [s \in Sessions |-> NoHist]

RoamNext ==
    \/ \E r \in Ids, upd \in HostUpdates : RemoteWrite(r, upd)
    \/ GoHome(1)
    \/ \E r \in Ids, uid \in UserIds : JoinFromHome(1, r, uid)
    \/ \E r \in Ids, uid \in UserIds : ChangeRoom(1, r, uid)
    \/ Deliver(1)
    \/ PlayerReady(1)
    \/ Progress(1)
    \/ Elapse
    \/ Advance

RoamSpec == RoamInit /\ [][RoamNext]_vars

(* C31: while a listener stays subscribed to a room, the lastUpdated of the    *)
(* RoomState it caches never decreases: not from the state read at join to a   *)
(* notification applied after it, nor from one notification to the next.       *)

C31_CacheNeverBackwards ==
    [][\A s \in Sessions :
          (/\ ui[s].sub # 0
           /\ ui'[s].sub = ui[s].sub
           /\ ~ui[s].isHost /\ ~ui'[s].isHost
           /\ IsState(ui[s].roomState)
           /\ IsState(ui'[s].roomState))
          => ui'[s].roomState.lastUpdated >= ui[s].roomState.lastUpdated]_vars

(* C32: a merge on a room changes no other room's stored record, and the       *)
(* subscriber of a room is invoked only for events of that room: an event of   *)
(* another room leaves the tab as it was, and a state the subscriber applies   *)
(* is a state of the room subscribed to.                                       *)

Dispatched(s) == inbox[s] # <<>> /\ inbox'[s] = Tail(inbox[s])

C32_RoomsIsolated ==
    [][/\ lastWrite'.kind # "none"
            => \A q \in Ids \ {lastWrite'.room} : store'[q] = store[q]
       /\ \A s \in Sessions :
             Dispatched(s)
             => /\ Head(inbox[s]).key # ui[s].sub
                     => ui'[s] = ui[s] /\ pl'[s] = pl[s]
                /\ ui'[s].roomState # ui[s].roomState
                     => /\ Head(inbox[s]).key = ui[s].sub
                        /\ ui'[s].roomState.roomId = ui[s].sub]_vars

\* the host of one room has merged an update while another room is stored, and the
\* event is queued in a tab whose subscription is to the other room
C32_Witness_ForeignEvent ==
    /\ lastWrite.kind = "remote" /\ lastWrite.applied
    /\ \E q \in Ids \ {lastWrite.room} :
          /\ IsState(store[q])
          /\ ui[1].sub = q
          /\ inbox[1] # <<>>
          /\ Head(inbox[1]).key = lastWrite.room

====
